---- MODULE Spec2Model ----
(***************************************************************************)
(* SPDM v1.0.0 message codec of spdm.py: the request/response code tables, *)
(* the version-nibble helpers and the two scapy packet classes             *)
(* (SPDMGetVersionMessage, SPDMVersionMessage) with scapy's build and      *)
(* dissect of their fields_desc.                                           *)
(***************************************************************************)
EXTENDS Integers, Sequences, FiniteSets, TLC

VARIABLES op, cls, origin, orig, pkt, wire, inbuf, outcome, arg, ret

vars == <<op, cls, origin, orig, pkt, wire, inbuf, outcome, arg, ret>>

\* Python's None, as a field value or a default.
None == -1

\* Longest VersionNumberEntry list a caller passes.
MaxEntries == 2

Byte == 0..255

\* Python's range(a, b) as a list: a, a+1, ..., b-1.
Range(a, b) == [i \in 1..(b - a) |-> a + i - 1]

Elems(s) == {s[i] : i \in DOMAIN s}

----------------------------------------------------------------------------
\* Code tables

INVERSE_REQUEST_CODES_swapped ==
    (\h81 :> "GET_DIGESTS") @@ (\h82 :> "GET_CERTIFICATE") @@
    (\h83 :> "CHALLENGE") @@ (\h84 :> "GET_VERSION") @@
    (\hE0 :> "GET_MEASUREMENTS") @@ (\hE1 :> "GET_CAPABILITIES") @@
    (\hE3 :> "NEGOTIATE_ALGORITHMS") @@ (\hFE :> "RESPOND_IF_READY") @@
    (\hFF :> "VENDOR_DEFINED_REQUEST")

INVERSE_REQUEST_CODES ==
    (\h81 :> "GET_DIGESTS") @@ (\h82 :> "GET_CERTIFICATE") @@
    (\h83 :> "CHALLENGE") @@ (\h84 :> "GET_VERSION") @@
    (\hE0 :> "GET_MEASUREMENTS") @@ (\hE1 :> "GET_CAPABILITIES") @@
    (\hE3 :> "NEGOTIATE_ALGORITHMS") @@ (\hFF :> "RESPOND_IF_READY") @@
    (\hFE :> "VENDOR_DEFINED_REQUEST")

RESERVED_REQUEST_CODES ==
    <<\h80>> \o Range(\h85, \hDF) \o <<\hE2>> \o Range(\hE4, \hFD)

\* A dictionary value: an integer, or a list of integers (the "Reserved" key).
IntVal(b) == [int |-> b]
ListVal(l) == [list |-> l]
IsInt(x) == "int" \in DOMAIN x

REQUEST_CODES ==
    [ GET_DIGESTS |-> IntVal(\h81),
      GET_CERTIFICATE |-> IntVal(\h82),
      CHALLENGE |-> IntVal(\h83),
      GET_VERSION |-> IntVal(\h84),
      GET_MEASUREMENTS |-> IntVal(\hE0),
      GET_CAPABILITIES |-> IntVal(\hE1),
      NEGOTIATE_ALGORITHMS |-> IntVal(\hE3),
      RESPOND_IF_READY |-> IntVal(\hFF),
      VENDOR_DEFINED_REQUEST |-> IntVal(\hFE),
      Reserved |-> ListVal(<<\h80>> \o Range(\h85, \hDF) \o <<\hE2>>
                           \o Range(\hE4, \hFD)) ]

INVERSE_RESPONSE_CODES ==
    (\h01 :> "DIGESTS") @@ (\h02 :> "CERTIFICATE") @@
    (\h03 :> "CHALLENGE_AUTH") @@ (\h04 :> "VERSION") @@
    (\h60 :> "MEASUREMENTS") @@ (\h61 :> "CAPABILITIES") @@
    (\h63 :> "ALGORITHMS") @@ (\h7E :> "VENDOR_DEFINED_RESPONSE") @@
    (\h7F :> "ERROR")

RESPONSE_CODES ==
    [ DIGESTS |-> IntVal(\h01),
      CERTIFICATE |-> IntVal(\h02),
      CHALLENGE_AUTH |-> IntVal(\h03),
      VERSION |-> IntVal(\h04),
      MEASUREMENTS |-> IntVal(\h60),
      CAPABILITIES |-> IntVal(\h61),
      ALGORITHMS |-> IntVal(\h63),
      VENDOR_DEFINED_RESPONSE |-> IntVal(\h7E),
      ERROR |-> IntVal(\h7F),
      Reserved |-> ListVal(<<\h00>> \o Range(\h05, \h5F) \o <<\h62>>
                           \o Range(\h64, \h7D)) ]

RESERVED_RESPONSE_CODES ==
    <<\h00>> \o Range(\h05, \h5F) \o <<\h62>> \o Range(\h64, \h7D)

Directions == {"Request", "Response"}

InverseCodes(d) ==
    IF d = "Request" THEN INVERSE_REQUEST_CODES ELSE INVERSE_RESPONSE_CODES

Codes(d) == IF d = "Request" THEN REQUEST_CODES ELSE RESPONSE_CODES

ReservedCodes(d) ==
    IF d = "Request" THEN RESERVED_REQUEST_CODES ELSE RESERVED_RESPONSE_CODES

----------------------------------------------------------------------------
\* SPDMUtil

RECURSIVE BitAnd(_, _)
\* Python's x & y on non-negative integers, bit by bit.
BitAnd(x, y) ==
    IF x = 0 \/ y = 0 THEN 0
    ELSE (x % 2) * (y % 2) + 2 * BitAnd(x \div 2, y \div 2)

spdm_major_version_lownibble(version) == BitAnd(version, \h0F)

spdm_major_version(version) == BitAnd(version, \hF0)

spdm_minor_version(version) == BitAnd(version, \h0F)

----------------------------------------------------------------------------
\* Packet classes: fields_desc

GetVersionFieldsDesc ==
    << [name |-> "SPDMVersion", type |-> "XByteField", default |-> \h1],
       [name |-> "RequestResponseCode", type |-> "XByteField",
        default |-> REQUEST_CODES["GET_VERSION"].int],
       [name |-> "Param1", type |-> "XByteField", default |-> \h00],
       [name |-> "Param2", type |-> "XByteField", default |-> \h00] >>

VersionFieldsDesc_wrongcode ==
    << [name |-> "SPDMVersion", type |-> "XByteField", default |-> \h10],
       [name |-> "RequestResponseCode", type |-> "XByteField",
        default |-> REQUEST_CODES["GET_VERSION"].int],
       [name |-> "Param1", type |-> "XByteField", default |-> None],
       [name |-> "Param2", type |-> "XByteField", default |-> None],
       [name |-> "Reserved", type |-> "XByteField", default |-> None],
       [name |-> "VersionNumberEntryCount", type |-> "FieldLenField",
        default |-> None],
       [name |-> "VersionNumberEntry", type |-> "FieldListField",
        default |-> << >>] >>

\* FieldListField turns a default of None into the empty list.
VersionFieldsDesc ==
    << [name |-> "SPDMVersion", type |-> "XByteField", default |-> \h10],
       [name |-> "RequestResponseCode", type |-> "XByteField",
        default |-> RESPONSE_CODES["VERSION"].int],
       [name |-> "Param1", type |-> "XByteField", default |-> None],
       [name |-> "Param2", type |-> "XByteField", default |-> None],
       [name |-> "Reserved", type |-> "XByteField", default |-> None],
       [name |-> "VersionNumberEntryCount", type |-> "FieldLenField",
        default |-> None],
       [name |-> "VersionNumberEntry", type |-> "FieldListField",
        default |-> << >>] >>

fields_desc(c) ==
    IF c = "GET_VERSION" THEN GetVersionFieldsDesc ELSE VersionFieldsDesc

\* A packet: the field values given (None: not given, the default applies),
\* the bytes after the last field, and the bytes it was dissected from.
NoPkt == [none |-> TRUE]

NoFields(c) ==
    IF c = "GET_VERSION"
    THEN [SPDMVersion |-> None, RequestResponseCode |-> None,
          Param1 |-> None, Param2 |-> None]
    ELSE [SPDMVersion |-> None, RequestResponseCode |-> None,
          Param1 |-> None, Param2 |-> None, Reserved |-> None,
          VersionNumberEntryCount |-> None, VersionNumberEntry |-> << >>]

Packet(c, f) ==
    [cls |-> c, fields |-> f, payload |-> << >>,
     cached |-> FALSE, raw_packet_cache |-> << >>]

\* Packet.getfieldval: the value given, else the field's default.
getfieldval(f, fd) ==
    IF fd.type = "FieldListField" THEN f[fd.name]
    ELSE IF f[fd.name] = None THEN fd.default
    ELSE f[fd.name]

FieldByName(c, n) ==
    LET d == fields_desc(c)
    IN  d[CHOOSE i \in DOMAIN d : d[i].name = n]

FieldVal(p, n) == getfieldval(p.fields, FieldByName(p.cls, n))

\* Packet.__eq__: same class, every field's value equal, same payload.
PktEq(p, q) ==
    /\ p.cls = q.cls
    /\ \A i \in DOMAIN fields_desc(p.cls) :
          getfieldval(p.fields, fields_desc(p.cls)[i])
              = getfieldval(q.fields, fields_desc(p.cls)[i])
    /\ p.payload = q.payload

----------------------------------------------------------------------------
\* Build (bytes(pkt))

\* Field.i2m of a byte field: None is sent as 0.
XByteField_i2m(x) == IF x = None THEN 0 ELSE x

XShortField_addfield_LE(s, v) ==
    LET x == IF v = None THEN 0 ELSE v
    IN  s \o << x % 256, x \div 256 >>

\* XShortField packs with "!H": network order, high byte first.
XShortField_addfield(s, v) ==
    LET x == IF v = None THEN 0 ELSE v
    IN  s \o << x \div 256, x % 256 >>

FieldLenField_i2m_trusting(f, x) == IF x = None THEN 0 ELSE x

\* FieldLenField.i2m with count_of="VersionNumberEntry" and the identity
\* adjust: the count is computed only when no value was given.
FieldLenField_i2m(f, x) ==
    IF x = None THEN Len(f["VersionNumberEntry"]) ELSE x

RECURSIVE FieldListField_addfield(_, _)
FieldListField_addfield(s, val) ==
    IF val = << >> THEN s
    ELSE FieldListField_addfield(XShortField_addfield(s, Head(val)), Tail(val))

addfield(f, fd, s) ==
    LET val == getfieldval(f, fd)
    IN  CASE fd.type = "XByteField" -> Append(s, XByteField_i2m(val))
          [] fd.type = "FieldLenField" -> Append(s, FieldLenField_i2m(f, val))
          [] fd.type = "FieldListField" -> FieldListField_addfield(s, val)

RECURSIVE BuildFields(_, _, _, _)
BuildFields(f, d, i, s) ==
    IF i > Len(d) THEN s
    ELSE BuildFields(f, d, i + 1, addfield(f, d[i], s))

\* Packet.self_build: the bytes a packet was dissected from are reused.
self_build(p) ==
    IF p.cached THEN p.raw_packet_cache
    ELSE BuildFields(p.fields, fields_desc(p.cls), 1, << >>)

build(p) == self_build(p) \o p.payload

----------------------------------------------------------------------------
\* Dissect (PacketClass(raw bytes))

Drop(s, n) == SubSeq(s, n + 1, Len(s))

Failed == [ok |-> FALSE]

XByteField_getfield(s) ==
    IF Len(s) < 1 THEN Failed
    ELSE [ok |-> TRUE, rest |-> Drop(s, 1), val |-> s[1]]

\* struct.unpack("!H", ...) needs two bytes; the first is the high byte.
XShortField_getfield(s) ==
    IF Len(s) < 2 THEN Failed
    ELSE [ok |-> TRUE, rest |-> Drop(s, 2), val |-> 256 * s[1] + s[2]]

RECURSIVE FieldListField_getfield(_, _, _)
\* while s: stop once count_from(pkt) entries are read; read one entry.
FieldListField_getfield(s, c, val) ==
    IF s = << >> THEN [ok |-> TRUE, rest |-> s, val |-> val]
    ELSE IF c # None /\ c <= 0 THEN [ok |-> TRUE, rest |-> s, val |-> val]
    ELSE LET r == XShortField_getfield(s)
         IN  IF ~r.ok THEN Failed
             ELSE FieldListField_getfield(
                      r.rest, IF c = None THEN None ELSE c - 1,
                      Append(val, r.val))

getfield(f, d, i, s) ==
    IF d[i].type = "FieldListField"
    THEN FieldListField_getfield(
             s, getfieldval(f, FieldByName("VERSION",
                                           "VersionNumberEntryCount")), << >>)
    ELSE XByteField_getfield(s)

RECURSIVE do_dissect(_, _, _, _, _)
\* Packet.do_dissect: field after field. stopOnEmpty is the library release's
\* behaviour once the buffer is used up: leave the remaining fields unset
\* (TRUE) or let the field's unpack raise struct.error (FALSE).
do_dissect(f, d, i, s, stopOnEmpty) ==
    IF i > Len(d) THEN [ok |-> TRUE, rest |-> s, fields |-> f]
    ELSE IF stopOnEmpty /\ s = << >>
    THEN [ok |-> TRUE, rest |-> s, fields |-> f]
    ELSE LET r == getfield(f, d, i, s)
         IN  IF ~r.ok THEN Failed
             ELSE do_dissect([f EXCEPT ![d[i].name] = r.val], d, i + 1,
                             r.rest, stopOnEmpty)

\* Packet.__init__(_pkt=s): empty bytes are not dissected; what is left
\* after the last field becomes the payload.
dissect(c, s, stopOnEmpty) ==
    IF s = << >> THEN [ok |-> TRUE, pkt |-> Packet(c, NoFields(c))]
    ELSE LET r == do_dissect(NoFields(c), fields_desc(c), 1, s, stopOnEmpty)
         IN  IF ~r.ok THEN [ok |-> FALSE, pkt |-> NoPkt]
             ELSE [ok |-> TRUE,
                   pkt |-> [cls |-> c, fields |-> r.fields,
                            payload |-> r.rest, cached |-> TRUE,
                            raw_packet_cache |->
                                SubSeq(s, 1, Len(s) - Len(r.rest))]]

----------------------------------------------------------------------------
\* Inputs

\* Sequences over S of length at most n.
RECURSIVE SeqsUpTo(_, _)
SeqsUpTo(S, n) ==
    IF n = 0 THEN {<< >>}
    ELSE LET shorter == SeqsUpTo(S, n - 1)
         IN  shorter \cup
             {Append(s, x) : s \in {t \in shorter : Len(t) = n - 1}, x \in S}

EntrySamples == {\h0010, \h1000, \h1200}

GetVersionArgs ==
    [SPDMVersion : {None, \h10}, RequestResponseCode : {None, \h84, \h04, \h80},
     Param1 : {None, \hA5}, Param2 : {None, \h5A}]

VersionArgs ==
    [SPDMVersion : {None, \h10}, RequestResponseCode : {None, \h04, \h84},
     Param1 : {None, \h00, \hA5}, Param2 : {None, \h5A},
     Reserved : {None, \hFF},
     VersionNumberEntryCount : {None} \cup 0..(MaxEntries + 1),
     VersionNumberEntry : SeqsUpTo(EntrySamples, MaxEntries)]

\* Four-byte request buffers: every code byte.
GetVersionBuffers ==
    {<<v, c, \h00, p2>> : v \in {\h10, \h01}, c \in Byte, p2 \in {\h00, \hA5}}

\* VERSION buffers: a header, a declared count, and any run of trailing
\* bytes (short of, matching, or beyond the declared count), and the
\* prefixes of a header.
VersionBuffers ==
    {<<\h10, \h04, p1, \h00, r, n>> \o tail :
        p1 \in {\h00, \hA5}, r \in {\h00, \hFF}, n \in 0..(MaxEntries + 1),
        tail \in SeqsUpTo({\h00, \h10, \h12}, 2 * MaxEntries + 1)}
    \cup {SubSeq(<<\h10, \h04, \h00, \h00, \h00>>, 1, k) : k \in 1..5}

Names(d) ==
    DOMAIN Codes(d) \cup {"GET_VERSION", "VERSION", "NO_SUCH_MESSAGE"}

----------------------------------------------------------------------------
\* Operations

Init ==
    /\ op = "start"
    /\ cls = "none"
    /\ origin = "none"
    /\ orig = NoPkt
    /\ pkt = NoPkt
    /\ wire = << >>
    /\ inbuf = << >>
    /\ outcome = "none"
    /\ arg = << >>
    /\ ret = << >>

\* SPDMGetVersionMessage(**kw)
NewGetVersion ==
    /\ op = "start"
    /\ \E kw \in GetVersionArgs :
          /\ pkt' = Packet("GET_VERSION", kw)
          /\ orig' = Packet("GET_VERSION", kw)
    /\ op' = "new"
    /\ cls' = "GET_VERSION"
    /\ origin' = "args"
    /\ outcome' = "ok"
    /\ UNCHANGED <<wire, inbuf, arg, ret>>

\* SPDMVersionMessage(**kw)
NewVersion ==
    /\ op = "start"
    /\ \E kw \in VersionArgs :
          /\ pkt' = Packet("VERSION", kw)
          /\ orig' = Packet("VERSION", kw)
    /\ op' = "new"
    /\ cls' = "VERSION"
    /\ origin' = "args"
    /\ outcome' = "ok"
    /\ UNCHANGED <<wire, inbuf, arg, ret>>

\* bytes(pkt), of a packet made from arguments or from raw bytes
Build ==
    /\ \/ op = "new"
       \/ op = "dissect" /\ origin = "raw" /\ outcome = "ok"
    /\ wire' = build(pkt)
    /\ op' = "build"
    /\ UNCHANGED <<cls, origin, orig, pkt, inbuf, outcome, arg, ret>>

Dissected(c, s, stopOnEmpty) ==
    LET r == dissect(c, s, stopOnEmpty)
    IN  /\ pkt' = r.pkt
        /\ outcome' = IF r.ok THEN "ok" ELSE "struct.error"

\* SPDMGetVersionMessage(raw bytes)
ReceiveGetVersion ==
    /\ op = "start"
    /\ \E s \in GetVersionBuffers, stopOnEmpty \in BOOLEAN :
          /\ inbuf' = s
          /\ Dissected("GET_VERSION", s, stopOnEmpty)
    /\ op' = "dissect"
    /\ cls' = "GET_VERSION"
    /\ origin' = "raw"
    /\ UNCHANGED <<orig, wire, arg, ret>>

\* SPDMVersionMessage(raw bytes)
ReceiveVersion ==
    /\ op = "start"
    /\ \E s \in VersionBuffers, stopOnEmpty \in BOOLEAN :
          /\ inbuf' = s
          /\ Dissected("VERSION", s, stopOnEmpty)
    /\ op' = "dissect"
    /\ cls' = "VERSION"
    /\ origin' = "raw"
    /\ UNCHANGED <<orig, wire, arg, ret>>

\* The class of a built packet applied to its own bytes.
Redissect ==
    /\ op = "build"
    /\ origin = "args"
    /\ \E stopOnEmpty \in BOOLEAN : Dissected(cls, wire, stopOnEmpty)
    /\ inbuf' = wire
    /\ op' = "dissect"
    /\ UNCHANGED <<cls, origin, orig, wire, arg, ret>>

\* b in INVERSE_*_CODES, INVERSE_*_CODES.get(b), b in RESERVED_*_CODES
LookupCode ==
    /\ op = "start"
    /\ \E d \in Directions, b \in Byte :
          /\ arg' = <<d, b>>
          /\ ret' = [assigned |-> b \in DOMAIN InverseCodes(d),
                     name |-> IF b \in DOMAIN InverseCodes(d)
                              THEN InverseCodes(d)[b] ELSE "None",
                     reserved |-> b \in Elems(ReservedCodes(d)),
                     listed |-> b \in Elems(Codes(d)["Reserved"].list)]
    /\ op' = "code"
    /\ UNCHANGED <<cls, origin, orig, pkt, wire, inbuf, outcome>>

\* *_CODES[name], a KeyError when the name is no key
LookupName ==
    /\ op = "start"
    /\ \E d \in Directions :
          \E n \in Names(d) :
             /\ arg' = <<d, n>>
             /\ ret' = IF n \in DOMAIN Codes(d) THEN Codes(d)[n]
                       ELSE [KeyError |-> n]
    /\ op' = "name"
    /\ UNCHANGED <<cls, origin, orig, pkt, wire, inbuf, outcome>>

\* SPDMUtil.spdm_major_version(version)
MajorVersion ==
    /\ op = "start"
    /\ \E version \in Byte :
          /\ arg' = <<version>>
          /\ ret' = spdm_major_version(version)
    /\ op' = "major"
    /\ UNCHANGED <<cls, origin, orig, pkt, wire, inbuf, outcome>>

\* SPDMUtil.spdm_minor_version(version)
MinorVersion ==
    /\ op = "start"
    /\ \E version \in Byte :
          /\ arg' = <<version>>
          /\ ret' = spdm_minor_version(version)
    /\ op' = "minor"
    /\ UNCHANGED <<cls, origin, orig, pkt, wire, inbuf, outcome>>

Next ==
    \/ NewGetVersion
    \/ NewVersion
    \/ Build
    \/ ReceiveGetVersion
    \/ ReceiveVersion
    \/ Redissect
    \/ LookupCode
    \/ LookupName
    \/ MajorVersion
    \/ MinorVersion

Spec == Init /\ [][Next]_vars

----------------------------------------------------------------------------
\* Properties

Entries(p) == p.fields["VersionNumberEntry"]

Count(p) == p.fields["VersionNumberEntryCount"]

BuiltFromArgs(c) == op = "build" /\ origin = "args" /\ cls = c

DissectedRaw(c) == op = "dissect" /\ origin = "raw" /\ cls = c

\* C1: for each direction and every byte b, b is exactly one of assigned
\* (a key of the code-to-name table) or Reserved (in the reserved list):
\* the two sets are disjoint and together cover 0x00..0xFF.
C1_Partition ==
    op = "code" => (ret.assigned /= ret.reserved)

\* C2: a GET_VERSION message built with every field at its default encodes
\* to 10 84 00 00, and those bytes decode to a message equal to it.
C2_DefaultGetVersion ==
    (cls = "GET_VERSION" /\ origin = "args"
        /\ orig = Packet("GET_VERSION", NoFields("GET_VERSION")))
    => /\ op = "build" => wire = <<\h10, \h84, \h00, \h00>>
       /\ op = "dissect" => outcome = "ok" /\ PktEq(pkt, orig)

C4_LittleEndian ==
    /\ (DissectedRaw("VERSION") /\ outcome = "ok" /\ Len(inbuf) >= 6
           /\ Len(inbuf) >= 6 + 2 * inbuf[6])
       => /\ Len(Entries(pkt)) = inbuf[6]
          /\ \A i \in 1..inbuf[6] :
                Entries(pkt)[i] = inbuf[5 + 2 * i] + 256 * inbuf[6 + 2 * i]
    /\ BuiltFromArgs("VERSION")
       => \A i \in 1..Len(Entries(orig)) :
             /\ wire[5 + 2 * i] = Entries(orig)[i] % 256
             /\ wire[6 + 2 * i] = Entries(orig)[i] \div 256

\* A VERSION message with every payload and parameter byte given and an
\* entryCount that is the number of its entries.
WellFormed(p) ==
    /\ p.fields["Param1"] # None
    /\ p.fields["Param2"] # None
    /\ p.fields["Reserved"] # None
    /\ Count(p) = Len(Entries(p))

\* C5: decode(encode(m)) equals m for every well-formed VERSION message m,
\* and encode(decode(b)) equals b for every buffer b of exactly
\* 6 + 2*entryCount bytes.
C5_RoundTrip ==
    /\ (op = "dissect" /\ origin = "args" /\ cls = "VERSION"
           /\ WellFormed(orig))
       => outcome = "ok" /\ PktEq(pkt, orig)
    /\ (op = "build" /\ origin = "raw" /\ cls = "VERSION"
           /\ Len(inbuf) >= 6 /\ Len(inbuf) = 6 + 2 * inbuf[6])
       => wire = inbuf

C5_Witness ==
    /\ op = "dissect" /\ origin = "args" /\ cls = "VERSION"
    /\ WellFormed(orig)
    /\ Entries(orig) = <<\h1000, \h1200>>
    /\ Entries(pkt) = <<\h1000, \h1200>>
    /\ Count(pkt) = 2

\* C6: decoding a VERSION buffer of fewer than 6 bytes, or of fewer than
\* 6 + 2*entryCount bytes, fails and returns no message.
C6_TruncatedRejected ==
    (DissectedRaw("VERSION")
        /\ (Len(inbuf) < 6 \/ Len(inbuf) < 6 + 2 * inbuf[6]))
    => outcome # "ok" /\ pkt = NoPkt

\* The request bytes the specification documents as Reserved.
DocumentedReservedRequest ==
    {\h80} \cup (\h85..\hDE) \cup {\hE2} \cup (\hE4..\hFD)

\* C7: decoding a request buffer whose 2nd byte is a documented
\* request-Reserved value fails; no such buffer is accepted as a message.
C7_ReservedRejected ==
    (DissectedRaw("GET_VERSION") /\ inbuf[2] \in DocumentedReservedRequest)
    => outcome # "ok"

\* The code each message class declares.
DeclaredCode(c) == IF c = "GET_VERSION" THEN \h84 ELSE \h04

NameRoundTrips(d, n, v) ==
    /\ IsInt(v)
    /\ v.int \in Byte
    /\ v.int \in DOMAIN InverseCodes(d)
    /\ InverseCodes(d)[v.int] = n

CodeRoundTrips(d, b, n) ==
    /\ n \in DOMAIN Codes(d)
    /\ IsInt(Codes(d)[n])
    /\ Codes(d)[n].int = b

C10_Nibbles ==
    /\ op = "major"
       => /\ ret = (arg[1] \div 16) * 16
          /\ ret \in Byte
          /\ ret + spdm_minor_version(arg[1]) = arg[1]
    /\ op = "minor"
       => /\ ret = arg[1] % 16
          /\ ret \in Byte
          /\ spdm_major_version(arg[1]) + ret = arg[1]

C10_Witness ==
    /\ op = "major"
    /\ arg = <<\h12>>
    /\ ret = \h10

====
